---- MODULE Spec2Model ----
(***************************************************************************)
(* Model of the Excel AI interviewer core: the adaptive difficulty         *)
(* controller (DifficultyManager), the heuristic / AI answer evaluator     *)
(* (AnswerEvaluator), the question bank and selector (QuestionBank,        *)
(* QuestionGenerator), the interview session (InterviewSession,            *)
(* InterviewMetrics) and the page controller that drives the session       *)
(* (InterviewComponent).                                                   *)
(*                                                                         *)
(* Units.  Python floats are modelled by exact scaled integers:            *)
(*   difficulty        in tenths        (5.0  is 50)                       *)
(*   quality           in hundredths    (0.85 is 85)                       *)
(*   scores            in tenths        (8.5  is 85)                       *)
(*   weights           in tenths        (0.4  is 4)                        *)
(*   time              in whole seconds                                    *)
(* Texts are TLA+ strings; lower(), upper(), split(), `in` and len() are   *)
(* computed on their characters.                                           *)
(***************************************************************************)
EXTENDS Integers, Sequences, FiniteSets, TLC

\* Optional[T]: None is the empty tuple, a present value v is <<v>>
None == <<>>
Some(v) == <<v>>
The(o) == o[1]

Max2(a, b) == IF a >= b THEN a ELSE b
Min2(a, b) == IF a <= b THEN a ELSE b
Abs(a) == IF a < 0 THEN -a ELSE a

(***************************************************************************)
(* config/settings.py, InterviewConfig.  The services read the difficulty  *)
(* range, the default difficulty and the three weights from the settings   *)
(* object; InterviewConfig is where the settings module sets them.         *)
(***************************************************************************)
MIN_DIFFICULTY == 10
MAX_DIFFICULTY == 100
DEFAULT_DIFFICULTY == 50
TECHNICAL_WEIGHT == 4
APPROACH_WEIGHT == 3
COMMUNICATION_WEIGHT == 3
min_questions == 3

(***************************************************************************)
(* Bounds of the model.                                                    *)
(***************************************************************************)
MaxCalls == 4
MaxWords == 2
MaxExclude == 2
MaxAdded == 1
MaxGenerated == 2
MaxClock == 4
MaxPicks == 5
MaxResponses == 3
MaxQuestions == 2
MaxReports == 2
MaxUses == 3
MaxObserved == 3

(***************************************************************************)
(* Inputs of calculate_adjustment: quality (hundredths) below 0, in each   *)
(* tier and above 1; time_taken (seconds) negative, fast, normal and very  *)
(* slow; question_difficulty (tenths) zero, low, middle and high.          *)
(***************************************************************************)
Qualities == {-100, 30, 50, 70, 85, 90, 1000}
Times == {-5, 50, 200, 100000}
QuestionDifficulties == {0, 20, 50, 100}

(***************************************************************************)
(* Python str operations used by the evaluator, on TLA+ strings.           *)
(***************************************************************************)
CharAt(s, i) == SubSeq(s, i, i)

UpperLetters == "ABCDEFGHIJKLMNOPQRSTUVWXYZ"
LowerLetters == "abcdefghijklmnopqrstuvwxyz"

\* position of the one-character string c in alphabet, 0 when absent
IndexIn(c, alphabet) ==
    IF \E i \in 1..Len(alphabet) : CharAt(alphabet, i) = c
    THEN CHOOSE i \in 1..Len(alphabet) : CharAt(alphabet, i) = c
    ELSE 0

LowerChar(c) ==
    LET i == IndexIn(c, UpperLetters)
    IN  IF i = 0 THEN c ELSE CharAt(LowerLetters, i)

UpperChar(c) ==
    LET i == IndexIn(c, LowerLetters)
    IN  IF i = 0 THEN c ELSE CharAt(UpperLetters, i)

RECURSIVE lower(_)
\* str.lower(), letter by letter (the halves keep the recursion shallow)
lower(s) ==
    IF Len(s) <= 1 THEN LowerChar(s)
    ELSE lower(SubSeq(s, 1, Len(s) \div 2)) \o lower(SubSeq(s, Len(s) \div 2 + 1, Len(s)))

RECURSIVE upper(_)
\* str.upper(), letter by letter
upper(s) ==
    IF Len(s) <= 1 THEN UpperChar(s)
    ELSE upper(SubSeq(s, 1, Len(s) \div 2)) \o upper(SubSeq(s, Len(s) \div 2 + 1, Len(s)))

RECURSIVE strip(_)
\* str.strip(): the texts of the model hold no whitespace but the blank
strip(s) ==
    IF s = "" THEN ""
    ELSE IF CharAt(s, 1) = " " THEN strip(SubSeq(s, 2, Len(s)))
    ELSE IF CharAt(s, Len(s)) = " " THEN strip(SubSeq(s, 1, Len(s) - 1))
    ELSE s

\* sub in s
Contains(s, sub) ==
    \E i \in 1..(Len(s) - Len(sub) + 1) : SubSeq(s, i, i + Len(sub) - 1) = sub

\* any(k in s for k in keys)
ContainsAny(s, keys) == \E k \in keys : Contains(s, k)

\* the start positions of the words of s: a non-blank that begins s or
\* follows a blank
WordStarts(s) ==
    {i \in 1..Len(s) : CharAt(s, i) # " " /\ (i = 1 \/ CharAt(s, i - 1) = " ")}

\* the word of s that starts at i
WordAt(s, i) ==
    LET ends == {j \in i..Len(s) : j = Len(s) \/ CharAt(s, j + 1) = " "}
        e == CHOOSE j \in ends : \A k \in ends : j <= k
    IN  SubSeq(s, i, e)

\* set(s.split())
split_set(s) == {WordAt(s, i) : i \in WordStarts(s)}

\* len(s.split())
split_len(s) == Cardinality(WordStarts(s))

\* len(s.split('.'))
split_dot_len(s) == Cardinality({i \in 1..Len(s) : CharAt(s, i) = "."}) + 1

(***************************************************************************)
(* QuestionBank._initialize_questions: the hardcoded questions, in order.  *)
(* evaluation_criteria is carried by no algorithm of the model (it only    *)
(* enters the provider prompt) and is left out.                            *)
(***************************************************************************)
initialize_questions == <<
    [id |-> "basic_1",
     text |-> "How would you calculate the sum of values in cells A1 to A10? Please write the exact formula.",
     category |-> "basic_formulas",
     difficulty |-> 20,
     expected_answer |-> "=SUM(A1:A10)"],
    [id |-> "basic_2",
     text |-> "What's the difference between absolute and relative cell references? Give an example of each.",
     category |-> "basic_formulas",
     difficulty |-> 30,
     expected_answer |-> "Relative: A1 changes when copied. Absolute: $A$1 stays fixed when copied."],
    [id |-> "basic_3",
     text |-> "How would you calculate the average of numbers in column B, excluding blank cells?",
     category |-> "basic_formulas",
     difficulty |-> 25,
     expected_answer |-> "=AVERAGE(B:B) or =AVERAGEA(B:B)"],
    [id |-> "basic_4",
     text |-> "What function would you use to count non-empty cells in a range? Write an example.",
     category |-> "basic_formulas",
     difficulty |-> 20,
     expected_answer |-> "=COUNTA(A1:A10) counts non-empty cells"],
    [id |-> "data_1",
     text |-> "You have sales data in column A and dates in column B. How would you find the total sales for a specific month?",
     category |-> "data_analysis",
     difficulty |-> 50,
     expected_answer |-> "Use SUMIFS function: =SUMIFS(A:A, B:B, \">=\"&DATE(year,month,1), B:B, \"<\"&DATE(year,month+1,1))"],
    [id |-> "data_2",
     text |-> "Explain the difference between VLOOKUP and INDEX/MATCH. When would you use each?",
     category |-> "data_analysis",
     difficulty |-> 60,
     expected_answer |-> "VLOOKUP searches right, limited. INDEX/MATCH more flexible, can search left, better performance."],
    [id |-> "data_3",
     text |-> "How would you create a pivot table to analyze sales by region and product category?",
     category |-> "data_analysis",
     difficulty |-> 55,
     expected_answer |-> "Insert > Pivot Table, drag Region to Rows, Product Category to Columns, Sales to Values"],
    [id |-> "data_4",
     text |-> "What's the best way to remove duplicate entries from a large dataset in Excel?",
     category |-> "data_analysis",
     difficulty |-> 45,
     expected_answer |-> "Data tab > Remove Duplicates, or Advanced Filter with unique records only"],
    [id |-> "advanced_1",
     text |-> "How would you create a dynamic dropdown list that updates based on another cell's value?",
     category |-> "advanced_functions",
     difficulty |-> 80,
     expected_answer |-> "Use INDIRECT function with named ranges or OFFSET function with data validation."],
    [id |-> "advanced_2",
     text |-> "Write a formula to find the second highest value in a range A1:A100.",
     category |-> "advanced_functions",
     difficulty |-> 70,
     expected_answer |-> "=LARGE(A1:A100,2) or use array formula with LARGE function"],
    [id |-> "advanced_3",
     text |-> "How would you use array formulas to perform calculations across multiple ranges simultaneously?",
     category |-> "advanced_functions",
     difficulty |-> 85,
     expected_answer |-> "Use Ctrl+Shift+Enter for array formulas, can calculate multiple conditions or ranges at once"],
    [id |-> "advanced_4",
     text |-> "Explain how to use the CHOOSE function with a practical example.",
     category |-> "advanced_functions",
     difficulty |-> 65,
     expected_answer |-> "CHOOSE(index_num, value1, value2, ...) returns value based on index. Example: =CHOOSE(2,\"Red\",\"Blue\",\"Green\") returns \"Blue\""],
    [id |-> "automation_1",
     text |-> "Describe how you would automate a monthly report generation process in Excel.",
     category |-> "automation",
     difficulty |-> 90,
     expected_answer |-> "Use VBA macros, Power Query for data refresh, pivot tables, scheduled tasks."],
    [id |-> "automation_2",
     text |-> "What's the difference between recording a macro and writing VBA code manually?",
     category |-> "automation",
     difficulty |-> 75,
     expected_answer |-> "Recorded macros capture exact steps, manual VBA allows logic, loops, conditions, more flexible"],
    [id |-> "automation_3",
     text |-> "How would you create a user form in Excel to collect data input?",
     category |-> "automation",
     difficulty |-> 85,
     expected_answer |-> "VBA Editor > Insert UserForm, add controls, write VBA code for events and data handling"],
    [id |-> "automation_4",
     text |-> "Explain how to use Excel's Power Query to import and transform data from multiple sources.",
     category |-> "automation",
     difficulty |-> 80,
     expected_answer |-> "Data > Get Data, connect to sources, use Power Query Editor for transformations, load to worksheet"]
>>

(***************************************************************************)
(* Inputs of evaluate_response: answers built from up to MaxWords words    *)
(* that each switch one rule of the heuristic on, the model answers of the *)
(* bank, the answers of the test suite and one long structured answer; the *)
(* outcomes of the provider call.                                          *)
(***************************************************************************)
ResponseWords == <<"=SUM(A1:A10)", "first", "efficient", "like", "VLOOKUP", "range.">>

RECURSIVE Join(_)
\* " ".join(words)
Join(words) ==
    IF words = <<>> THEN ""
    ELSE IF Len(words) = 1 THEN words[1]
    ELSE words[1] \o " " \o Join(Tail(words))

WordResponses ==
    {Join([i \in DOMAIN f |-> ResponseWords[f[i]]]) :
        f \in UNION {[1..n -> 1..Len(ResponseWords)] : n \in 0..MaxWords}}

LongResponse ==
    "First you can check the data range. Then the more efficient and better way is INDEX with MATCH, for example =INDEX(A:A,MATCH(B1,B:B,0)). Finally verify the totals on a few rows by hand to be safe."

Responses ==
    WordResponses
    \cup {initialize_questions[i].expected_answer : i \in 1..Len(initialize_questions)}
    \cup {"To sum values in Excel, use the SUM function: =SUM(A1:A10)", "Test answer",
          LongResponse}

\* a JSON number (tenths) and a JSON value that float() rejects
Num(v) == [number |-> TRUE, v |-> v]
NotNum == [number |-> FALSE, v |-> 0]

ProviderRaises == [call |-> "raise"]
ProviderNotJson == [call |-> "return", shape |-> "invalid"]
ProviderJsonList == [call |-> "return", shape |-> "list"]
ProviderBadValue ==
    [call |-> "return", shape |-> "object",
     dict |-> [technical_score |-> NotNum, approach_score |-> Num(70),
               communication_score |-> Num(80), overall_score |-> Num(78)]]
ProviderEmptyObject ==
    [call |-> "return", shape |-> "object", dict |-> [ignored |-> Num(0)]]
ProviderGood ==
    [call |-> "return", shape |-> "object",
     dict |-> [technical_score |-> Num(85), approach_score |-> Num(70),
               communication_score |-> Num(80), overall_score |-> Num(78),
               feedback |-> "Good answer", strengths |-> <<"Clear explanation">>,
               areas_for_improvement |-> <<"Add examples">>]]
ProviderOutOfRange ==
    [call |-> "return", shape |-> "object",
     dict |-> [technical_score |-> Num(150), approach_score |-> Num(-20),
               communication_score |-> Num(80), overall_score |-> Num(120)]]

ProviderOutcomes ==
    {ProviderRaises, ProviderNotJson, ProviderJsonList, ProviderBadValue,
     ProviderEmptyObject, ProviderGood, ProviderOutOfRange}

\* the outcomes the provider contract calls a failure
ProviderFailures == {ProviderRaises, ProviderNotJson, ProviderJsonList, ProviderBadValue}

(***************************************************************************)
(* Inputs of the question bank and the question generator.                 *)
(***************************************************************************)
BankIds == {initialize_questions[i].id : i \in 1..Len(initialize_questions)}

Categories == {"basic_formulas", "data_analysis", "advanced_functions", "automation",
               "pivot_tables"}

\* target difficulties (tenths): below the range, inside it, above every
\* question of the bank
Targets == {0, 25, 50, 75, 130}

\* questions a caller may add: a new category, and an id the bank holds
ExtraQuestions ==
    {[id |-> "pivot_1", text |-> "How do you refresh a pivot table?",
      category |-> "pivot_tables", difficulty |-> 40,
      expected_answer |-> "Right-click the pivot table and choose Refresh."],
     [id |-> "basic_1", text |-> "How do you add two cells?",
      category |-> "basic_formulas", difficulty |-> 10,
      expected_answer |-> "=A1+B1"]}

\* exclusion lists: every list of at most MaxExclude ids, every whole
\* category and the whole bank
RECURSIVE IdSetsUpTo(_)
\* the sets of at most k ids
IdSetsUpTo(k) ==
    IF k = 0 THEN {{}}
    ELSE LET smaller == IdSetsUpTo(k - 1)
         IN  smaller \cup {S \cup {id} : S \in smaller, id \in BankIds \cup {"pivot_1"}}

ExcludeSets ==
    IdSetsUpTo(MaxExclude)
    \cup {{initialize_questions[i].id : i \in
              {j \in 1..Len(initialize_questions) : initialize_questions[j].category = c}}
          : c \in Categories}
    \cup {BankIds, BankIds \cup {"pivot_1"}}

\* outcomes of self.model.generate_content in generate_ai_question: the
\* call raises; the response's text is a str (whatever it spells); the
\* response's text is a mapping, as the test double of the test suite has it
GenerationOutcomes ==
    {[call |-> "raise"],
     [call |-> "return", text_type |-> "str"],
     [call |-> "return", text_type |-> "dict",
      dict |-> [question_text |-> "Test question", expected_answer |-> "Test answer"]]}

(***************************************************************************)
(* Inputs of the session operations.                                       *)
(***************************************************************************)
\* the question objects handed to set_current_question: two of the bank
SessionQuestions ==
    {[question_id |-> initialize_questions[i].id,
      difficulty |-> initialize_questions[i].difficulty] : i \in {1, 9}}

\* two evaluations (scores in tenths)
EvaluationHigh ==
    [technical_score |-> 90, approach_score |-> 80, communication_score |-> 90,
     overall_score |-> 90]
EvaluationLow ==
    [technical_score |-> 20, approach_score |-> 50, communication_score |-> 60,
     overall_score |-> 40]

\* a ConversationTurn; turn_id and timestamp (default factories) play no
\* part in any operation and are left out
ConversationTurn(speaker, message, question_id, response_time, evaluation) ==
    [speaker |-> speaker, message |-> message, question_id |-> question_id,
     response_time |-> response_time, evaluation |-> evaluation]

\* the turns handed to add_conversation_turn: an interviewer prompt, a
\* candidate answer without evaluation, and evaluated candidate answers
\* with response_time absent, 0 and positive
TurnInputs ==
    {ConversationTurn("interviewer", "question", Some("basic_1"), None, None),
     ConversationTurn("candidate", "answer", None, Some(10), None),
     ConversationTurn("candidate", "answer", None, None, Some(EvaluationHigh)),
     ConversationTurn("candidate", "answer", None, Some(0), Some(EvaluationLow)),
     ConversationTurn("candidate", "answer", None, Some(10), Some(EvaluationHigh)),
     ConversationTurn("candidate", "answer", None, Some(20), Some(EvaluationLow)),
     ConversationTurn("candidate", "answer", None, Some(30), Some(EvaluationHigh))}

\* the CandidateInfo the welcome form builds
CandidateInfo ==
    [name |-> "Test Candidate", email |-> "test@example.com",
     position_applied |-> "Excel Analyst", experience_level |-> "Intermediate"]

(***************************************************************************)
(* Inputs of the report generator.  The session it reads is the one        *)
(* DatabaseManager.load_interview_session rebuilds: the questions asked    *)
(* (here their difficulties, in tenths), the responses (here their         *)
(* evaluation_score, in tenths) and an optional end_time.                  *)
(***************************************************************************)
\* evaluation scores 3 and 9; their means give 5, 6 and 7 as well
ResponseScores == {30, 90}

\* difficulties at and just below 3, 5 and 7
AskedDifficulties == {25, 30, 45, 50, 65, 70}

RECURSIVE SeqsUpTo(_, _)
\* the lists over S of length at most n
SeqsUpTo(S, n) ==
    IF n = 0 THEN {<<>>}
    ELSE SeqsUpTo(S, n - 1)
         \cup {Append(q, x) : q \in {r \in SeqsUpTo(S, n - 1) : Len(r) = n - 1}, x \in S}

\* the sessions load_interview_session can hand over
LoadedSessions ==
    {[questions_asked |-> qs, responses |-> rs, end_time |-> e] :
        qs \in SeqsUpTo(AskedDifficulties, MaxQuestions),
        rs \in SeqsUpTo(ResponseScores, MaxResponses),
        e \in {None, Some(0)}}

\* values of get_average_score(), as fractions of tenths: out of range, each
\* threshold and a value just below it, and the mean of 9, 8, 9
AverageScores ==
    {<<-10, 1>>, <<0, 1>>, <<29, 1>>, <<30, 1>>, <<49, 1>>, <<50, 1>>, <<59, 1>>,
     <<60, 1>>, <<69, 1>>, <<70, 1>>, <<79, 1>>, <<80, 1>>, <<260, 3>>, <<100, 1>>,
     <<120, 1>>}

VARIABLES
    dm_current_difficulty,   \* DifficultyManager.current_difficulty (tenths)
    dm_performance_history,  \* DifficultyManager.performance_history
    dm_returned,             \* value returned by the last calculate_adjustment
    dm_trend,                \* what the trend added to base_adjustment in that call
    dm_args,                 \* the arguments of a call that is looked at, and the
                             \* current_difficulty it found
    ev_args,                 \* arguments of the evaluate_response call in progress
    ev_result,               \* what that call returned or raised
    qb_questions,            \* QuestionBank.questions
    qb_args,                 \* arguments of the bank / generator call in progress
    qb_result,               \* what that call returned or raised
    qg_model,                \* QuestionGenerator.model is set
    qg_used_questions,       \* QuestionGenerator.used_questions
    qg_uuid,                 \* number of uuid4() ids drawn so far
    candidate_info,          \* InterviewSession.candidate_info
    stage,                   \* InterviewSession.stage
    status,                  \* InterviewSession.status
    current_question,        \* InterviewSession.current_question
    conversation,            \* InterviewSession.conversation
    questions_asked,         \* InterviewSession.questions_asked
    current_difficulty,      \* InterviewSession.current_difficulty (tenths)
    metrics,                 \* InterviewSession.metrics
    created_at,              \* InterviewSession.created_at
    started_at,              \* InterviewSession.started_at
    completed_at,            \* InterviewSession.completed_at
    st_current_question,     \* st.session_state.current_question
    clock,                   \* the time datetime.now() last gave
    last_op,                 \* the last operation on the session and how it ended
    rot_picks,               \* used_categories of a caller of _select_target_category
    rg_session,              \* the session handed to the ReportGenerator
    rg_reports,              \* what generate_final_report returned for it, in order
    rg_args,                 \* arguments of the _assess_skill_level call in progress
    rg_result,               \* its result
    eq_usage_count,          \* ExcelQuestion.usage_count of the shared question
    eq_avg_score,            \* ExcelQuestion.avg_score of the shared question
    eq_pc,                   \* where each session stands in its use of the question
    eq_local,                \* the usage_count each session read for its += 1
    eq_calls,                \* number of increment_usage calls that have returned
    eq_scores,               \* the scores recorded so far, in order
    eq_new                   \* the last ExcelQuestion(...) call and how it ended

dmVars == <<dm_current_difficulty, dm_performance_history, dm_returned, dm_trend>>

evVars == <<ev_args, ev_result>>

qbVars == <<qb_questions, qb_args, qb_result, qg_model, qg_used_questions, qg_uuid>>

sessionVars == <<candidate_info, stage, status, current_question, conversation,
                 questions_asked, current_difficulty, metrics, created_at, started_at,
                 completed_at>>

ivVars == <<sessionVars, st_current_question, clock, last_op>>

rotVars == <<rot_picks>>

rgVars == <<rg_session, rg_reports, rg_args, rg_result>>

eqVars == <<eq_usage_count, eq_avg_score, eq_pc, eq_local, eq_calls, eq_scores, eq_new>>

vars == <<dmVars, dm_args, evVars, qbVars, ivVars, rotVars, rgVars, eqVars>>

\* what an operation of one component leaves alone: the other components
notDm == <<evVars, qbVars, ivVars, rotVars, rgVars, eqVars>>
notEv == <<dmVars, dm_args, qbVars, ivVars, rotVars, rgVars, eqVars>>
notQb == <<dmVars, dm_args, evVars, ivVars, rotVars, rgVars, eqVars>>
notIv == <<dmVars, dm_args, evVars, rotVars, rgVars, eqVars>>
notRot == <<dmVars, dm_args, evVars, qbVars, ivVars, rgVars, eqVars>>
notRg == <<dmVars, dm_args, evVars, qbVars, ivVars, rotVars, eqVars>>
notEq == <<dmVars, dm_args, evVars, qbVars, ivVars, rotVars, rgVars>>

(***************************************************************************)
(* DifficultyManager                                                       *)
(***************************************************************************)

\* if/elif chain on response_quality (tenths of a difficulty point)
PerformanceAdjustment(response_quality) ==
    IF response_quality >= 80 THEN 15
    ELSE IF response_quality >= 60 THEN 5
    ELSE IF response_quality >= 40 THEN -10
    ELSE -20

\* the time factor whose two comparisons include the limits
TimeAdjustment_Inclusive(time_taken, question_difficulty) ==
    LET expected_time == question_difficulty * 30
    IN  IF time_taken * 10 * 10 <= expected_time * 7 THEN 5
        ELSE IF time_taken * 10 >= expected_time * 2 THEN -5
        ELSE 0

\* expected_time = question_difficulty * 30; time_taken < expected_time * 0.7
\* gives +0.5, time_taken > expected_time * 2 gives -0.5.  With
\* question_difficulty in tenths, expected_time is in tenths of a second.
TimeAdjustment(time_taken, question_difficulty) ==
    LET expected_time == question_difficulty * 30
    IN  IF time_taken * 10 * 10 < expected_time * 7 THEN 5
        ELSE IF time_taken * 10 > expected_time * 2 THEN -5
        ELSE 0

\* The samples are floats.  For two samples x and y given in hundredths the
\* float (x - y) / 2 is the exact value except when x and y are 0.20 apart:
\* there the float lies just above 0.1 for some pairs and at or just below it
\* for the others.  FloatTrendAbove lists the lower sample (in hundredths,
\* for samples between 0.00 and 1.00) of the pairs that give more than 0.1.
FloatTrendAbove == {35, 36, 47, 48, 57, 58, 59, 60, 61, 69, 70, 71, 72, 73}

\* the float (x - y) / 2 in units of 1/600, so that 0.1 is 60 and a float
\* just above or below 0.1 is 61 or -61
FloatHalfDiff(x, y) ==
    3 * (x - y) + (IF x - y = 20 /\ y \in FloatTrendAbove THEN 1
                   ELSE IF x - y = -20 /\ x \in FloatTrendAbove THEN -1
                   ELSE 0)

\* _calculate_trend with the older of the last two samples as the base
calculate_trend_FromPrevious(performance_history) ==
    IF Len(performance_history) < 3 THEN 0
    ELSE LET n == Len(performance_history)
             recent == SubSeq(performance_history, n - 2, n)
         IN  FloatHalfDiff(recent[3], recent[2])

\* _calculate_trend: (recent[-1] - recent[0]) / 2 over the last three
\* samples, in units of 1/600
calculate_trend(performance_history) ==
    IF Len(performance_history) < 3 THEN 0
    ELSE LET n == Len(performance_history)
             recent == SubSeq(performance_history, n - 2, n)
         IN  FloatHalfDiff(recent[3], recent[1])

\* the trend part of calculate_adjustment: 0.1 is 60 in the units of the trend
TrendAdjustment(performance_history) ==
    IF Len(performance_history) >= 3
    THEN LET recent_trend == calculate_trend(performance_history)
         IN  IF recent_trend > 60 THEN 3
             ELSE IF recent_trend < -60 THEN -3
             ELSE 0
    ELSE 0

\* a clamp that forgets the upper end
Clamp_NoUpper(lo, hi, x) == Max2(lo, x)

\* max(self.min_difficulty, min(self.max_difficulty, x))
Clamp(lo, hi, x) == Max2(lo, Min2(hi, x))

\* the value calculate_adjustment computes; history is the list after the
\* append of the current sample
NewDifficulty(current, history, response_quality, time_taken, question_difficulty) ==
    LET base_adjustment == PerformanceAdjustment(response_quality)
                           + TimeAdjustment(time_taken, question_difficulty)
                           + TrendAdjustment(history)
    IN  Clamp(MIN_DIFFICULTY, MAX_DIFFICULTY, current + base_adjustment)

calculate_adjustment(response_quality, time_taken, question_difficulty) ==
    /\ Len(dm_performance_history) < MaxCalls
    /\ LET history == Append(dm_performance_history, response_quality)
           new_difficulty == NewDifficulty(dm_current_difficulty, history,
                                 response_quality, time_taken, question_difficulty)
       IN  /\ dm_performance_history' = history
           /\ dm_current_difficulty' = new_difficulty
           /\ dm_returned' = Some(new_difficulty)
           /\ dm_trend' = Some(TrendAdjustment(history))
    /\ UNCHANGED notDm

\* a call of calculate_adjustment that is looked at: its arguments and the
\* current_difficulty it starts from are kept next to what it returns
observed_adjustment(response_quality, time_taken, question_difficulty) ==
    /\ Len(dm_performance_history) < MaxObserved
    /\ calculate_adjustment(response_quality, time_taken, question_difficulty)
    /\ dm_args' = Some([current_difficulty |-> dm_current_difficulty,
                        response_quality |-> response_quality,
                        time_taken |-> time_taken,
                        question_difficulty |-> question_difficulty])

\* DifficultyManager.reset
reset ==
    /\ dm_performance_history # <<>>
    /\ dm_current_difficulty' = DEFAULT_DIFFICULTY
    /\ dm_performance_history' = <<>>
    /\ dm_returned' = None
    /\ dm_trend' = None
    /\ UNCHANGED notDm

(***************************************************************************)
(* AnswerEvaluator                                                         *)
(***************************************************************************)

\* _calculate_technical_score(response, expected, question), in points;
\* response and expected arrive lower-cased
calculate_technical_score(response, expected, question) ==
    LET common_words == split_set(expected) \cap split_set(response)
        keyword_score == IF common_words # {}
                         THEN Min2(6, Cardinality(common_words) * 2)
                         ELSE 0
        formula_score == IF question.category \in {"basic_formulas", "data_analysis"}
                         THEN (IF Contains(response, "=") THEN 2 ELSE 0)
                              + (IF ContainsAny(upper(response),
                                        {"SUM", "AVERAGE", "VLOOKUP", "INDEX", "MATCH"})
                                 THEN 2 ELSE 0)
                         ELSE 0
    IN  Min2(10, keyword_score + formula_score)

\* _calculate_approach_score(response, question), in points
calculate_approach_score(response, question) ==
    LET length_score == IF Len(response) > 100 THEN 2
                        ELSE IF Len(response) > 50 THEN 1
                        ELSE 0
        structure_score == IF ContainsAny(lower(response),
                                  {"first", "then", "next", "finally"})
                           THEN 1 ELSE 0
        practice_score == IF ContainsAny(lower(response),
                                 {"best practice", "efficient", "optimize"})
                          THEN 2 ELSE 0
    IN  Min2(10, 5 + length_score + structure_score + practice_score)

\* _calculate_communication_score(response), in points
calculate_communication_score(response) ==
    LET sentence_score == IF split_dot_len(response) > 1 THEN 2 ELSE 0
        detail_score == IF split_len(response) > 20 THEN 2 ELSE 0
        language_score == IF ~ContainsAny(lower(response),
                                  {"um", "uh", "like", "you know"})
                          THEN 1 ELSE 0
    IN  Min2(10, 5 + sentence_score + detail_score + language_score)

\* overall_score = (t * wt + a * wa + c * wc) / (wt + wa + wc) * 10, on
\* scores in tenths; the three scores are whole points, so the weighted sum
\* is a multiple of the sum of the weights and the division is exact
WeightedOverall(technical, approach, communication) ==
    ((technical * TECHNICAL_WEIGHT + approach * APPROACH_WEIGHT
        + communication * COMMUNICATION_WEIGHT)
     \div (TECHNICAL_WEIGHT + APPROACH_WEIGHT + COMMUNICATION_WEIGHT)) * 10

\* _generate_fallback_feedback(tech, approach, comm), on points
generate_fallback_feedback(tech, approach, comm) ==
    IF tech >= 7 /\ approach >= 7
    THEN "Good technical understanding with a solid approach. Keep up the good work!"
    ELSE IF tech >= 5
    THEN "Shows basic understanding but could benefit from more detailed explanations."
    ELSE "Consider reviewing the fundamentals and providing more comprehensive answers."

\* _identify_strengths(tech, approach, comm), on points
identify_strengths(tech, approach, comm) ==
    LET strengths == (IF tech >= 7 THEN <<"Strong technical knowledge">> ELSE <<>>)
                     \o (IF approach >= 7 THEN <<"Good problem-solving approach">> ELSE <<>>)
                     \o (IF comm >= 7 THEN <<"Clear communication">> ELSE <<>>)
    IN  IF strengths = <<>> THEN <<"Attempted to provide an answer">> ELSE strengths

\* _identify_improvements(tech, approach, comm), on points
identify_improvements(tech, approach, comm) ==
    (IF tech < 6 THEN <<"Review Excel functions and formulas">> ELSE <<>>)
    \o (IF approach < 6 THEN <<"Think through problems step-by-step">> ELSE <<>>)
    \o (IF comm < 6 THEN <<"Provide more detailed explanations">> ELSE <<>>)

\* an EvaluationResult; the four scores are in tenths
EvaluationResult(source, technical, approach, communication, overall, feedback, strengths, improvements) ==
    [kind |-> "result", source |-> source,
     technical_score |-> technical, approach_score |-> approach,
     communication_score |-> communication, overall_score |-> overall,
     feedback |-> feedback, strengths |-> strengths,
     areas_for_improvement |-> improvements]

\* an exception that leaves the call
Raise(exc) == [kind |-> "raise", exc |-> exc]

\* a str value and the provider's response object, as values of the local
\* variable `response` of evaluate_response
Str(s) == [type |-> "str", value |-> s]
GenerateContentResponse(payload) == [type |-> "GenerateContentResponse", value |-> payload]

\* _fallback_evaluation(question, response): response.lower() is the first
\* thing it does, and only a str has it
fallback_evaluation(question, response) ==
    IF response.type # "str" THEN Raise("AttributeError")
    ELSE
    LET response_lower == strip(lower(response.value))
        expected_lower == lower(question.expected_answer)
        technical_score == calculate_technical_score(response_lower, expected_lower, question)
        approach_score == calculate_approach_score(response.value, question)
        communication_score == calculate_communication_score(response.value)
        overall_score == WeightedOverall(technical_score * 10, approach_score * 10,
                                         communication_score * 10)
    IN  EvaluationResult("heuristic", technical_score * 10, approach_score * 10,
            communication_score * 10, overall_score,
            generate_fallback_feedback(technical_score, approach_score, communication_score),
            identify_strengths(technical_score, approach_score, communication_score),
            identify_improvements(technical_score, approach_score, communication_score))

\* dict.get(key, default)
DictGet(dict, key, default) == IF key \in DOMAIN dict THEN dict[key] ELSE default

\* _dict_to_evaluation_result(result_dict): float() of each score, taken as
\* the provider gave it; raises when result_dict is no dict or a score is no
\* number
dict_to_evaluation_result(json) ==
    IF json.shape # "object" THEN Raise("AttributeError")
    ELSE
    LET d == json.dict
        t == DictGet(d, "technical_score", Num(0))
        a == DictGet(d, "approach_score", Num(0))
        c == DictGet(d, "communication_score", Num(0))
        o == DictGet(d, "overall_score", Num(0))
    IN  IF ~(t.number /\ a.number /\ c.number /\ o.number) THEN Raise("ValueError")
        ELSE EvaluationResult("ai", t.v, a.v, c.v, o.v,
                 DictGet(d, "feedback", "No feedback available"),
                 DictGet(d, "strengths", <<>>),
                 DictGet(d, "areas_for_improvement", <<>>))

\* evaluate_response(question, response) with the client flag and the
\* outcome of self.model.generate_content: provider.call is "raise" or
\* "return"; a returned object carries text that json.loads rejects
\* (shape "invalid") or parses (shape "list" or "object").  Line 36 rebinds
\* the local name `response` to the provider's object, so every fallback
\* after a returned call receives that object instead of the answer text.
EvaluateResponse(client, question, response, provider) ==
    IF ~client THEN fallback_evaluation(question, Str(response))
    ELSE IF provider.call = "raise"
         THEN \* except Exception, `response` not yet rebound
              fallback_evaluation(question, Str(response))
    ELSE LET rebound == GenerateContentResponse(provider)
             inner == IF provider.shape = "invalid"
                      THEN \* except json.JSONDecodeError
                           fallback_evaluation(question, rebound)
                      ELSE dict_to_evaluation_result(provider)
         IN  IF inner.kind = "raise"
             THEN \* except Exception
                  fallback_evaluation(question, rebound)
             ELSE inner

\* one call of evaluate_response on an evaluator whose client is set or not
evaluate_response(client, question, response, provider) ==
    /\ ev_args = None
    /\ ev_args' = Some([client |-> client, question |-> question,
                        response |-> response, provider |-> provider])
    /\ ev_result' = Some(EvaluateResponse(client, question, response, provider))
    /\ UNCHANGED notEv

\* the caller takes the result; the evaluator keeps no state between calls
evaluate_return ==
    /\ ev_args # None
    /\ ev_args' = None
    /\ ev_result' = None
    /\ UNCHANGED notEv

InitEvaluator ==
    /\ ev_args = None
    /\ ev_result = None

NextEvaluator ==
    \/ /\ ev_args = None
       /\ \E i \in 1..Len(initialize_questions), r \in Responses :
             evaluate_response(FALSE, initialize_questions[i], r, ProviderRaises)
    \/ /\ ev_args = None
       /\ \E i \in 1..Len(initialize_questions), r \in Responses,
             p \in ProviderOutcomes :
             evaluate_response(TRUE, initialize_questions[i], r, p)
    \/ evaluate_return

(***************************************************************************)
(* QuestionBank                                                            *)
(***************************************************************************)

\* category is None or q.category == category
CategoryMatch(q, category) == category = None \/ q.category = The(category)

\* the pick that takes the first question of the bank among idx, unsorted
Closest_FirstOfBank(questions, idx, target_difficulty) ==
    CHOOSE i \in idx : \A j \in idx : i <= j

\* the index that sorted(..., key=distance)[0] picks among idx: the least
\* distance to the target, the earliest of the bank among equals (sorted is
\* stable)
Closest(questions, idx, target_difficulty) ==
    CHOOSE i \in idx :
        \A j \in idx :
            LET di == Abs(questions[i].difficulty - target_difficulty)
                dj == Abs(questions[j].difficulty - target_difficulty)
            IN  di < dj \/ (di = dj /\ i <= j)

\* get_question_by_difficulty whose fallback list forgets the exclusion
get_question_by_difficulty_NoExcludeInFallback(questions, target_difficulty, category, exclude_ids) ==
    LET suitable == {i \in 1..Len(questions) :
                        /\ questions[i].id \notin exclude_ids
                        /\ Abs(questions[i].difficulty - target_difficulty) <= 20
                        /\ CategoryMatch(questions[i], category)}
        category_questions == {i \in 1..Len(questions) :
                                  CategoryMatch(questions[i], category)}
    IN  IF suitable # {}
        THEN Some(questions[CHOOSE i \in suitable : \A j \in suitable : i <= j])
        ELSE IF category_questions # {}
        THEN Some(questions[Closest(questions, category_questions, target_difficulty)])
        ELSE None

\* QuestionBank.get_question_by_difficulty(target_difficulty, category,
\* exclude_ids) on the list `questions`: the first question of the bank that
\* is not excluded, within 2.0 of the target and of the category; failing
\* that the closest not excluded question of the category; else None
get_question_by_difficulty(questions, target_difficulty, category, exclude_ids) ==
    LET suitable == {i \in 1..Len(questions) :
                        /\ questions[i].id \notin exclude_ids
                        /\ Abs(questions[i].difficulty - target_difficulty) <= 20
                        /\ CategoryMatch(questions[i], category)}
        category_questions == {i \in 1..Len(questions) :
                                  /\ questions[i].id \notin exclude_ids
                                  /\ CategoryMatch(questions[i], category)}
    IN  IF suitable # {}
        THEN Some(questions[CHOOSE i \in suitable : \A j \in suitable : i <= j])
        ELSE IF category_questions # {}
        THEN Some(questions[Closest(questions, category_questions, target_difficulty)])
        ELSE None

\* a call that returned value (a question or None)
Return(value) == [kind |-> "return", value |-> value]

\* QuestionBank.get_categories: the categories of the bank; list(set(...))
\* fixes no order, the model lists them as the bank first shows them
get_categories(questions) ==
    LET first == {i \in 1..Len(questions) :
                     \A j \in 1..(i - 1) : questions[j].category # questions[i].category}
        nth[k \in 0..Cardinality(first)] ==
            IF k = 0 THEN <<>>
            ELSE LET rest == {i \in first : \A m \in 1..Len(nth[k - 1]) :
                                 questions[i].category # nth[k - 1][m]}
                 IN  Append(nth[k - 1],
                            questions[CHOOSE i \in rest : \A j \in rest : i <= j].category)
    IN  nth[Cardinality(first)]

(***************************************************************************)
(* QuestionGenerator                                                       *)
(***************************************************************************)

\* _select_target_category without the unused-first rule: it only cycles
select_target_category_NoUnusedFirst(all_categories, used_categories, preferred_category) ==
    LET in_all(c) == \E i \in 1..Len(all_categories) : all_categories[i] = c
    IN  IF preferred_category # None /\ The(preferred_category) # ""
           /\ in_all(The(preferred_category))
        THEN preferred_category
        ELSE IF all_categories # <<>>
        THEN Some(all_categories[(Len(used_categories) % Len(all_categories)) + 1])
        ELSE None

\* _select_target_category(all_categories, used_categories, preferred_category)
select_target_category(all_categories, used_categories, preferred_category) ==
    LET in_all(c) == \E i \in 1..Len(all_categories) : all_categories[i] = c
        in_used(c) == \E i \in 1..Len(used_categories) : used_categories[i] = c
        unused_categories == SelectSeq(all_categories, LAMBDA c : ~in_used(c))
    IN  IF preferred_category # None /\ The(preferred_category) # ""
           /\ in_all(The(preferred_category))
        THEN preferred_category
        ELSE IF unused_categories # <<>> THEN Some(unused_categories[1])
        ELSE IF all_categories # <<>>
        THEN Some(all_categories[(Len(used_categories) % Len(all_categories)) + 1])
        ELSE None

\* generate_ai_question(difficulty, category) given the outcome of
\* generate_content: None without a model; a raising call, and the .get on a
\* str text, end in `except Exception` and None; a mapping text gives the
\* Question with a fresh uuid
GenerateAiQuestion(model, difficulty, category, outcome, uuid) ==
    IF ~model THEN Return(None)
    ELSE IF outcome.call = "raise" THEN Return(None)
    ELSE IF outcome.text_type = "str" THEN Return(None)
    ELSE Return(Some([id |-> uuid,
                      text |-> DictGet(outcome.dict, "question_text", ""),
                      category |-> category,
                      difficulty |-> difficulty,
                      expected_answer |-> DictGet(outcome.dict, "expected_answer", "")]))

\* super().get_next_question(...): QuestionGenerator names no base class,
\* so the lookup on object fails
SuperGetNextQuestion(target_difficulty, used_categories, preferred_category) ==
    Raise("AttributeError")

\* get_next_question(target_difficulty, used_categories, preferred_category):
\* the bank lookup through super() comes first and is not guarded; what
\* follows it runs only if that lookup returns
GetNextQuestion(questions, model, target_difficulty, used_categories, preferred_category, outcome, uuid) ==
    LET looked_up == SuperGetNextQuestion(target_difficulty, used_categories,
                                          preferred_category)
    IN  IF looked_up.kind = "raise" THEN looked_up
        ELSE IF looked_up.value = None /\ model
        THEN GenerateAiQuestion(model, target_difficulty,
                 select_target_category(get_categories(questions), used_categories,
                                        preferred_category),
                 outcome, uuid)
        ELSE looked_up

Uuid(n) == IF n = 0 THEN "uuid_1" ELSE IF n = 1 THEN "uuid_2" ELSE "uuid_3"

\* one call of QuestionBank.get_question_by_difficulty
bank_get_question_by_difficulty(target_difficulty, category, exclude_ids) ==
    /\ qb_args = None
    /\ qb_args' = Some([op |-> "get_question_by_difficulty",
                        target_difficulty |-> target_difficulty,
                        category |-> category, exclude_ids |-> exclude_ids])
    /\ qb_result' = Some(Return(get_question_by_difficulty(qb_questions,
                             target_difficulty, category, exclude_ids)))
    /\ UNCHANGED <<qb_questions, qg_model, qg_used_questions, qg_uuid, notQb>>

\* QuestionBank.add_question(question): ValueError on an id the bank holds
add_question(question) ==
    /\ qb_args = None
    /\ Len(qb_questions) < Len(initialize_questions) + MaxAdded
    /\ qb_args' = Some([op |-> "add_question", question |-> question])
    /\ IF \E i \in 1..Len(qb_questions) : qb_questions[i].id = question.id
       THEN /\ qb_result' = Some(Raise("ValueError"))
            /\ UNCHANGED qb_questions
       ELSE /\ qb_result' = Some(Return(None))
            /\ qb_questions' = Append(qb_questions, question)
    /\ UNCHANGED <<qg_model, qg_used_questions, qg_uuid, notQb>>

\* one call of QuestionGenerator.generate_ai_question
generate_ai_question(difficulty, category, outcome) ==
    /\ qb_args = None
    /\ qg_uuid < MaxGenerated
    /\ qb_args' = Some([op |-> "generate_ai_question", difficulty |-> difficulty,
                        category |-> category, outcome |-> outcome])
    /\ qb_result' = Some(GenerateAiQuestion(qg_model, difficulty, category, outcome,
                                            Uuid(qg_uuid)))
    /\ qg_uuid' = IF qg_model /\ outcome.call = "return" /\ outcome.text_type = "dict"
                  THEN qg_uuid + 1 ELSE qg_uuid
    /\ UNCHANGED <<qb_questions, qg_model, qg_used_questions, notQb>>

\* one call of QuestionGenerator.get_next_question; used_questions grows
\* only by a question the call is about to return
get_next_question(target_difficulty, used_categories, preferred_category, outcome) ==
    /\ qb_args = None
    /\ LET result == GetNextQuestion(qb_questions, qg_model, target_difficulty,
                         used_categories, preferred_category, outcome, Uuid(qg_uuid))
       IN  /\ qb_args' = Some([op |-> "get_next_question",
                               target_difficulty |-> target_difficulty,
                               used_categories |-> used_categories,
                               preferred_category |-> preferred_category])
           /\ qb_result' = Some(result)
           /\ qg_used_questions' =
                 IF result.kind = "return" /\ result.value # None
                 THEN Append(qg_used_questions, The(result.value).id)
                 ELSE qg_used_questions
    /\ UNCHANGED <<qb_questions, qg_model, qg_uuid, notQb>>

\* the caller takes the result
bank_return ==
    /\ qb_args # None
    /\ qb_args' = None
    /\ qb_result' = None
    /\ UNCHANGED <<qb_questions, qg_model, qg_used_questions, qg_uuid, notQb>>

\* _init_ai leaves model set, or None when the provider cannot be set up
InitSelector ==
    /\ qb_questions = initialize_questions
    /\ qb_args = None
    /\ qb_result = None
    /\ qg_model \in BOOLEAN
    /\ qg_used_questions = <<>>
    /\ qg_uuid = 0

NextSelector ==
    \/ /\ qb_args = None
       /\ \E t \in Targets, c \in {None} \cup {Some(k) : k \in Categories},
             ex \in ExcludeSets :
             bank_get_question_by_difficulty(t, c, ex)
    \/ /\ qb_args = None
       /\ \E q \in ExtraQuestions : add_question(q)
    \/ /\ qb_args = None
       /\ \E t \in Targets, c \in Categories, o \in GenerationOutcomes :
             generate_ai_question(t, c, o)
    \/ /\ qb_args = None
       /\ \E t \in Targets, used \in {<<>>, <<"basic_formulas">>},
             pref \in {None, Some("data_analysis")}, o \in GenerationOutcomes :
             get_next_question(t, used, pref, o)
    \/ bank_return

(***************************************************************************)
(* Category rotation: a caller that keeps used_categories, asks            *)
(* _select_target_category for the next category and appends the answer.   *)
(* all_categories is get_categories() of the bank, a list(set(...)) whose  *)
(* order the language leaves open: every order of the bank's categories    *)
(* is an input.                                                            *)
(***************************************************************************)
\* the categories of the bank, as a set
CategorySet(questions) == {questions[i].category : i \in 1..Len(questions)}

RECURSIVE Orders(_)
\* every list that holds each element of S once
Orders(S) ==
    IF S = {} THEN {<<>>}
    ELSE UNION {{<<c>> \o rest : rest \in Orders(S \ {c})} : c \in S}

\* one turn of the caller, which passes no preferred category:
\* used_categories.append(_select_target_category(all_categories, used_categories))
select_next_category(all_categories) ==
    /\ Len(rot_picks) < MaxPicks
    /\ LET chosen == select_target_category(all_categories, rot_picks, None)
       IN  /\ chosen # None
           /\ rot_picks' = Append(rot_picks, The(chosen))
    /\ UNCHANGED notRot

InitRotation == rot_picks = <<>>

NextRotation ==
    \/ /\ Len(rot_picks) < MaxPicks
       /\ \E all_categories \in Orders(CategorySet(qb_questions)) :
             select_next_category(all_categories)
    \/ /\ qb_args = None
       /\ \E question \in ExtraQuestions : add_question(question)
    \/ bank_return

(***************************************************************************)
(* InterviewMetrics and InterviewSession.  A float that holds a quotient   *)
(* is the exact fraction <<numerator, denominator>> in lowest terms.       *)
(***************************************************************************)
RECURSIVE Gcd(_, _)
Gcd(a, b) == IF b = 0 THEN a ELSE Gcd(b, a % b)

\* n / d, d > 0
Frac(n, d) ==
    LET g == Gcd(Abs(n), d)
    IN  IF n = 0 THEN <<0, 1>> ELSE <<n \div g, d \div g>>

RECURSIVE Sum(_)
\* sum(list)
Sum(list) == IF list = <<>> THEN 0 ELSE Head(list) + Sum(Tail(list))

\* update_averages that folds the latest score into the stored average
update_averages_Cumulative(m) ==
    LET fold(avg, scores) ==
            IF scores # <<>>
            THEN Frac(avg[1] + scores[Len(scores)] * avg[2], 2 * avg[2]) ELSE avg
    IN  [m EXCEPT
            !.avg_technical = fold(@, m.technical_scores),
            !.avg_approach = fold(@, m.approach_scores),
            !.avg_communication = fold(@, m.communication_scores),
            !.overall_score = fold(@, m.overall_scores)]

\* InterviewMetrics.update_averages on the metrics m
update_averages(m) ==
    [m EXCEPT
        !.avg_technical = IF m.technical_scores # <<>>
                          THEN Frac(Sum(m.technical_scores), Len(m.technical_scores)) ELSE @,
        !.avg_approach = IF m.approach_scores # <<>>
                         THEN Frac(Sum(m.approach_scores), Len(m.approach_scores)) ELSE @,
        !.avg_communication = IF m.communication_scores # <<>>
                              THEN Frac(Sum(m.communication_scores),
                                        Len(m.communication_scores)) ELSE @,
        !.overall_score = IF m.overall_scores # <<>>
                          THEN Frac(Sum(m.overall_scores), Len(m.overall_scores)) ELSE @]

\* InterviewMetrics()
NewMetrics ==
    [total_questions |-> 0, questions_answered |-> 0, avg_response_time |-> <<0, 1>>,
     difficulty_progression |-> <<>>,
     technical_scores |-> <<>>, approach_scores |-> <<>>,
     communication_scores |-> <<>>, overall_scores |-> <<>>,
     avg_technical |-> <<0, 1>>, avg_approach |-> <<0, 1>>,
     avg_communication |-> <<0, 1>>, overall_score |-> <<0, 1>>]

\* add_conversation_turn whose mean gives the old mean and the new time
\* equal weight
MetricsAfterTurn_HalfMean(m, turn) ==
    IF turn.speaker = "candidate" /\ turn.evaluation # None
    THEN LET eval_data == The(turn.evaluation)
             scored == [m EXCEPT
                 !.technical_scores = Append(@, eval_data.technical_score),
                 !.approach_scores = Append(@, eval_data.approach_score),
                 !.communication_scores = Append(@, eval_data.communication_score),
                 !.overall_scores = Append(@, eval_data.overall_score)]
         IN  IF turn.response_time # None /\ The(turn.response_time) # 0
             THEN [scored EXCEPT
                      !.questions_answered = @ + 1,
                      !.avg_response_time =
                          Frac(m.avg_response_time[1]
                                   + The(turn.response_time) * m.avg_response_time[2],
                               m.avg_response_time[2] * 2)]
             ELSE scored
    ELSE m

\* the metrics after add_conversation_turn(turn): an evaluated candidate
\* turn appends its four scores; a truthy response_time (present and not 0)
\* also counts the answer and folds the time into the running mean
MetricsAfterTurn(m, turn) ==
    IF turn.speaker = "candidate" /\ turn.evaluation # None
    THEN LET eval_data == The(turn.evaluation)
             scored == [m EXCEPT
                 !.technical_scores = Append(@, eval_data.technical_score),
                 !.approach_scores = Append(@, eval_data.approach_score),
                 !.communication_scores = Append(@, eval_data.communication_score),
                 !.overall_scores = Append(@, eval_data.overall_score)]
         IN  IF turn.response_time # None /\ The(turn.response_time) # 0
             THEN LET answered == m.questions_answered + 1
                      \* total_time = avg_response_time * questions_answered
                      total_num == m.avg_response_time[1] * m.questions_answered
                      total_den == m.avg_response_time[2]
                  IN  [scored EXCEPT
                          !.questions_answered = answered,
                          !.avg_response_time =
                              Frac(total_num + The(turn.response_time) * total_den,
                                   total_den * answered)]
             ELSE scored
    ELSE m

\* set_current_question that counts the question without recording its
\* difficulty
MetricsAfterQuestion_CountOnly(m, question) ==
    [m EXCEPT !.total_questions = @ + 1]

\* the metrics after set_current_question(question)
MetricsAfterQuestion(m, question) ==
    [m EXCEPT !.total_questions = @ + 1,
              !.difficulty_progression = Append(@, question.difficulty)]

\* get_duration_minutes(): (completed_at - started_at) in seconds over 60,
\* None while either is missing
get_duration_minutes ==
    IF started_at # None /\ completed_at # None
    THEN Some(<<The(completed_at) - The(started_at), 60>>)
    ELSE None

\* what happened last: the operation, whether the page (ui) or a direct
\* caller (api) ran it, and "ok" or the exception that ended it
Op(op, via, outcome) == [op |-> op, via |-> via, outcome |-> outcome]

\* datetime.now(): time has moved on since the last operation
Tick == clock < MaxClock /\ clock' = clock + 1

\* start_interview that forgets to stamp started_at
StartInterview_NoTimestamp ==
    /\ stage' = "questioning"
    /\ UNCHANGED <<started_at, status, current_question, conversation, questions_asked,
                   current_difficulty, metrics, created_at, completed_at>>

\* InterviewSession.start_interview(): no condition on the current stage
StartInterview ==
    /\ started_at' = Some(clock')
    /\ stage' = "questioning"
    /\ UNCHANGED <<status, current_question, conversation, questions_asked,
                   current_difficulty, metrics, created_at, completed_at>>

\* InterviewSession.complete_interview(): no condition on the current stage
\* or on the number of answers
CompleteInterview ==
    /\ completed_at' = Some(clock')
    /\ stage' = "complete"
    /\ status' = "completed"
    /\ metrics' = update_averages(metrics)
    /\ UNCHANGED <<candidate_info, current_question, conversation, questions_asked,
                   current_difficulty, created_at, started_at>>

\* InterviewSession.set_current_question(question)
SetCurrentQuestion(question) ==
    /\ current_question' = Some(question)
    /\ questions_asked' = Append(questions_asked, question.question_id)
    /\ metrics' = MetricsAfterQuestion(metrics, question)
    /\ UNCHANGED <<candidate_info, stage, status, conversation, current_difficulty,
                   created_at, started_at, completed_at>>

\* a direct call of start_interview()
start_interview ==
    /\ Tick
    /\ StartInterview
    /\ last_op' = Op("start_interview", "api", "ok")
    /\ UNCHANGED <<candidate_info, st_current_question, qbVars, notIv>>

\* a direct call of complete_interview()
complete_interview ==
    /\ Tick
    /\ CompleteInterview
    /\ last_op' = Op("complete_interview", "api", "ok")
    /\ UNCHANGED <<st_current_question, qbVars, notIv>>

\* add_conversation_turn that does not record the overall score
add_conversation_turn_NoOverall(turn) ==
    /\ Tick
    /\ conversation' = Append(conversation, turn)
    /\ metrics' = [MetricsAfterTurn(metrics, turn) EXCEPT
                       !.overall_scores = metrics.overall_scores]
    /\ last_op' = Op("add_conversation_turn", "api", "ok")
    /\ UNCHANGED <<candidate_info, stage, status, current_question, questions_asked,
                   current_difficulty, created_at, started_at, completed_at,
                   st_current_question, qbVars, notIv>>

\* a direct call of add_conversation_turn(turn)
add_conversation_turn(turn) ==
    /\ Tick
    /\ conversation' = Append(conversation, turn)
    /\ metrics' = MetricsAfterTurn(metrics, turn)
    /\ last_op' = Op("add_conversation_turn", "api", "ok")
    /\ UNCHANGED <<candidate_info, stage, status, current_question, questions_asked,
                   current_difficulty, created_at, started_at, completed_at,
                   st_current_question, qbVars, notIv>>

\* a direct call of set_current_question(question)
set_current_question(question) ==
    /\ Tick
    /\ SetCurrentQuestion(question)
    /\ last_op' = Op("set_current_question", "api", "ok")
    /\ UNCHANGED <<st_current_question, qbVars, notIv>>

\* session.candidate_info = candidate
set_candidate_info ==
    /\ Tick
    /\ candidate_info = None
    /\ candidate_info' = Some(CandidateInfo)
    /\ last_op' = Op("set_candidate_info", "api", "ok")
    /\ UNCHANGED <<stage, status, current_question, conversation, questions_asked,
                   current_difficulty, metrics, created_at, started_at, completed_at,
                   st_current_question, qbVars, notIv>>

(***************************************************************************)
(* InterviewComponent: render() runs the handler of the current stage.     *)
(***************************************************************************)

\* _render_welcome with the form submitted: the candidate is stored and the
\* interview started
render_welcome ==
    /\ stage = "welcome"
    /\ Tick
    /\ candidate_info' = Some(CandidateInfo)
    /\ StartInterview
    /\ last_op' = Op("render_welcome", "ui", "ok")
    /\ UNCHANGED <<st_current_question, qbVars, notIv>>

\* _render_interview.  Line 62 divides by total_questions before anything
\* else.  With no question on the page the generator is asked for one: a
\* question is shown and recorded, None completes the interview, an
\* exception leaves the handler.  On submit the answer is evaluated and
\* add_conversation_turn is called with keyword arguments it does not take,
\* so the handler ends in TypeError before the page's question is cleared.
\* A run that raises before it shows the question has read no clock.
render_interview(submit, outcome) ==
    /\ stage = "questioning"
    /\ IF metrics.total_questions = 0
       THEN /\ last_op' = Op("render_interview", "ui", "ZeroDivisionError")
            /\ UNCHANGED <<sessionVars, st_current_question, qbVars, clock>>
       ELSE IF st_current_question = None
       THEN LET got == GetNextQuestion(qb_questions, qg_model, current_difficulty,
                           <<>>, None, outcome, Uuid(qg_uuid))
            IN  IF got.kind = "raise"
                THEN /\ last_op' = Op("render_interview", "ui", got.exc)
                     /\ UNCHANGED <<sessionVars, st_current_question, qbVars, clock>>
                ELSE IF got.value # None
                THEN LET question == [question_id |-> The(got.value).id,
                                      difficulty |-> The(got.value).difficulty]
                     IN  /\ Tick
                         /\ st_current_question' = got.value
                         /\ SetCurrentQuestion(question)
                         /\ last_op' = Op("render_interview", "ui",
                                          IF submit THEN "TypeError" ELSE "ok")
                         /\ qg_used_questions' = Append(qg_used_questions, The(got.value).id)
                         /\ UNCHANGED <<qb_questions, qb_args, qb_result, qg_model, qg_uuid>>
                ELSE /\ Tick
                     /\ CompleteInterview
                     /\ last_op' = Op("render_interview", "ui", "ok")
                     /\ UNCHANGED <<st_current_question, qbVars>>
       ELSE /\ Tick
            /\ last_op' = Op("render_interview", "ui",
                             IF submit THEN "TypeError" ELSE "ok")
            /\ UNCHANGED <<sessionVars, st_current_question, qbVars>>
    /\ UNCHANGED notIv

\* _render_summary: the duration is formatted first (TypeError while it is
\* None); "Start New Interview" replaces the session by a new one
render_summary(restart) ==
    /\ stage = "complete"
    /\ Tick
    /\ IF get_duration_minutes = None
       THEN /\ last_op' = Op("render_summary", "ui", "TypeError")
            /\ UNCHANGED <<sessionVars, st_current_question>>
       ELSE IF restart
       THEN /\ candidate_info' = None
            /\ stage' = "welcome"
            /\ status' = "in_progress"
            /\ current_question' = None
            /\ conversation' = <<>>
            /\ questions_asked' = <<>>
            /\ current_difficulty' = DEFAULT_DIFFICULTY
            /\ metrics' = NewMetrics
            /\ created_at' = clock'
            /\ started_at' = None
            /\ completed_at' = None
            /\ st_current_question' = None
            /\ last_op' = Op("new_session", "ui", "ok")
       ELSE /\ last_op' = Op("render_summary", "ui", "ok")
            /\ UNCHANGED <<sessionVars, st_current_question>>
    /\ UNCHANGED <<qbVars, notIv>>

\* InterviewSession() and the page state InterviewComponent.__init__ sets
InitSession ==
    /\ candidate_info = None
    /\ stage = "welcome"
    /\ status = "in_progress"
    /\ current_question = None
    /\ conversation = <<>>
    /\ questions_asked = <<>>
    /\ current_difficulty = DEFAULT_DIFFICULTY
    /\ metrics = NewMetrics
    /\ created_at = 0
    /\ started_at = None
    /\ completed_at = None
    /\ st_current_question = None
    /\ clock = 0
    /\ last_op = Op("new_session", "api", "ok")

NextSession ==
    \/ start_interview
    \/ complete_interview
    \/ \E turn \in TurnInputs : add_conversation_turn(turn)
    \/ \E question \in SessionQuestions : set_current_question(question)
    \/ set_candidate_info
    \/ render_welcome
    \/ \E submit \in BOOLEAN, outcome \in GenerationOutcomes :
          render_interview(submit, outcome)
    \/ \E restart \in BOOLEAN : render_summary(restart)

(***************************************************************************)
(* ReportGenerator.  Scores and difficulties are in tenths; an average is  *)
(* a fraction <<numerator, denominator>> of tenths.                        *)
(***************************************************************************)
\* avg >= k for the fraction avg and the number k (in tenths)
AtLeast(avg, k) == avg[1] >= k * avg[2]

\* max(q.difficulty for q in session.questions_asked) if session.questions_asked else 0
MaxDifficulty(asked) ==
    IF asked = <<>> THEN 0
    ELSE CHOOSE d \in {asked[i] : i \in 1..Len(asked)} :
            \A i \in 1..Len(asked) : asked[i] <= d

\* the skill level that looks at the score only
SkillLevel_ScoreOnly(avg_score, max_difficulty) ==
    IF AtLeast(avg_score, 80) THEN "Expert"
    ELSE IF AtLeast(avg_score, 60) THEN "Advanced"
    ELSE IF AtLeast(avg_score, 40) THEN "Intermediate"
    ELSE "Beginner"

\* the if/elif chain of _assess_skill_level on the level
SkillLevel(avg_score, max_difficulty) ==
    IF AtLeast(avg_score, 80) /\ max_difficulty >= 70 THEN "Expert"
    ELSE IF AtLeast(avg_score, 60) /\ max_difficulty >= 50 THEN "Advanced"
    ELSE IF AtLeast(avg_score, 40) /\ max_difficulty >= 30 THEN "Intermediate"
    ELSE "Beginner"

\* the recommendation whose thresholds are strict
HiringRecommendation_Strict(avg_score) ==
    IF avg_score[1] > 70 * avg_score[2] THEN "Strong Recommend"
    ELSE IF avg_score[1] > 50 * avg_score[2] THEN "Recommend with Training"
    ELSE IF avg_score[1] > 30 * avg_score[2] THEN "Consider for Junior Roles"
    ELSE "Not Recommended"

\* the if/elif chain of _assess_skill_level on the hiring recommendation
HiringRecommendation(avg_score) ==
    IF AtLeast(avg_score, 70) THEN "Strong Recommend"
    ELSE IF AtLeast(avg_score, 50) THEN "Recommend with Training"
    ELSE IF AtLeast(avg_score, 30) THEN "Consider for Junior Roles"
    ELSE "Not Recommended"

\* min(100, max(0, (avg_score / 10) * 100)), a fraction of percent
ConfidenceScore(avg_score) ==
    IF avg_score[1] <= 0 THEN <<0, 1>>
    ELSE IF AtLeast(avg_score, 100) THEN <<100, 1>>
    ELSE avg_score

\* _assess_skill_level, given what session.get_average_score() returned and
\* the difficulties of session.questions_asked
AssessSkillLevel(avg_score, asked) ==
    [skill_level |-> SkillLevel(avg_score, MaxDifficulty(asked)),
     hiring_recommendation |-> HiringRecommendation(avg_score),
     confidence_score |-> ConfidenceScore(avg_score)]

\* session.get_average_score(): the mean of the responses' evaluation_score,
\* 0 without responses
get_average_score(session) ==
    IF session.responses = <<>> THEN <<0, 1>>
    ELSE Frac(Sum(session.responses), Len(session.responses))

\* generate_final_report(session) at time now: the error report without
\* responses; ValueError from min() of no difficulties (_calculate_basic_metrics)
\* when responses came without questions; else the report, of which the
\* session_info end time, the basic metrics and the skill assessment are kept
GenerateFinalReport(session, now) ==
    IF session.responses = <<>>
    THEN Return([error |-> "No responses to evaluate"])
    ELSE IF session.questions_asked = <<>> THEN Raise("ValueError")
    ELSE Return([end_time |-> IF session.end_time # None THEN The(session.end_time)
                              ELSE now,
                 total_questions |-> Len(session.questions_asked),
                 overall_score |-> get_average_score(session),
                 skill_assessment |-> AssessSkillLevel(get_average_score(session),
                                                       session.questions_asked)])

\* DatabaseManager.load_interview_session hands a session over
load_interview_session(session) ==
    /\ rg_session = None
    /\ rg_session' = Some(session)
    /\ UNCHANGED <<rg_reports, rg_args, rg_result, notRg>>

\* a generate_final_report that takes the responses off the session as it
\* reads them
generate_final_report_Consuming ==
    /\ rg_session # None
    /\ Len(rg_reports) < MaxReports
    /\ rg_reports' = Append(rg_reports,
                            GenerateFinalReport(The(rg_session), Len(rg_reports) + 1))
    /\ rg_session' = Some([The(rg_session) EXCEPT !.responses =
                              IF @ = <<>> THEN @ ELSE Tail(@)])
    /\ UNCHANGED <<rg_args, rg_result, notRg>>

\* one run of generate_final_report on the session; the n-th run reads the
\* clock at time n
generate_final_report ==
    /\ rg_session # None
    /\ Len(rg_reports) < MaxReports
    /\ rg_reports' = Append(rg_reports,
                            GenerateFinalReport(The(rg_session), Len(rg_reports) + 1))
    /\ UNCHANGED <<rg_session, rg_args, rg_result, notRg>>

\* one call of _assess_skill_level on the session, whose get_average_score()
\* gives avg_score
assess_skill_level(avg_score) ==
    /\ rg_session # None
    /\ rg_args = None
    /\ rg_args' = Some([avg_score |-> avg_score,
                        questions_asked |-> The(rg_session).questions_asked])
    /\ rg_result' = Some(AssessSkillLevel(avg_score, The(rg_session).questions_asked))
    /\ UNCHANGED <<rg_session, rg_reports, notRg>>

\* the caller takes the assessment
assess_return ==
    /\ rg_args # None
    /\ rg_args' = None
    /\ rg_result' = None
    /\ UNCHANGED <<rg_session, rg_reports, notRg>>

InitReport ==
    /\ rg_session = None
    /\ rg_reports = <<>>
    /\ rg_args = None
    /\ rg_result = None

NextReport ==
    \/ /\ rg_session = None
       /\ \E session \in LoadedSessions : load_interview_session(session)
    \/ generate_final_report
    \/ /\ rg_session # None
       /\ rg_args = None
       /\ \E avg_score \in AverageScores : assess_skill_level(avg_score)
    \/ assess_return

(***************************************************************************)
(* ExcelQuestion: construction, and the usage updates of one question that *)
(* two sessions share.  Difficulty and scores are in tenths.               *)
(***************************************************************************)
\* the sessions that hold the same question object
SharingSessions == {"s1", "s2"}

\* ExcelQuestion(text=text, difficulty=difficulty, ...): __post_init__
\* raises on a difficulty outside 1..10 and on blank text, else the object
\* is built with the fields as given
PostInit(text, difficulty) ==
    IF ~(10 <= difficulty /\ difficulty <= 100) THEN Raise("ValueError")
    ELSE IF strip(text) = "" THEN Raise("ValueError")
    ELSE Return([text |-> text, difficulty |-> difficulty, usage_count |-> 0,
                 avg_score |-> <<0, 1>>])

\* one construction of a question, as load_interview_session does for every
\* stored row
new_question(text, difficulty) ==
    /\ eq_new' = Some([text |-> text, difficulty |-> difficulty,
                       result |-> PostInit(text, difficulty)])
    /\ UNCHANGED <<eq_usage_count, eq_avg_score, eq_pc, eq_local, eq_calls, eq_scores,
                   notEq>>

\* increment_usage, first half of self.usage_count += 1: read the attribute
increment_usage_load(s) ==
    /\ eq_pc[s] = "idle"
    /\ eq_calls < MaxUses
    /\ eq_local' = [eq_local EXCEPT ![s] = eq_usage_count]
    /\ eq_pc' = [eq_pc EXCEPT ![s] = "incrementing"]
    /\ UNCHANGED <<eq_usage_count, eq_avg_score, eq_calls, eq_scores, eq_new, notEq>>

\* increment_usage, second half: store the sum and return
increment_usage_store(s) ==
    /\ eq_pc[s] = "incrementing"
    /\ eq_usage_count' = eq_local[s] + 1
    /\ eq_calls' = eq_calls + 1
    /\ eq_pc' = [eq_pc EXCEPT ![s] = "used"]
    /\ UNCHANGED <<eq_avg_score, eq_local, eq_scores, eq_new, notEq>>

\* update_effectiveness_metrics(score, discrimination) by a session that
\* has counted its use; discrimination_index and updated_at are left out
update_effectiveness_metrics(s, score) ==
    /\ eq_pc[s] = "used"
    /\ eq_avg_score' =
          IF eq_usage_count > 0
          THEN Frac(eq_avg_score[1] * (eq_usage_count - 1) + score * eq_avg_score[2],
                    eq_avg_score[2] * eq_usage_count)
          ELSE <<score, 1>>
    /\ eq_scores' = Append(eq_scores, score)
    /\ eq_pc' = [eq_pc EXCEPT ![s] = "idle"]
    /\ UNCHANGED <<eq_usage_count, eq_local, eq_calls, eq_new, notEq>>

InitQuestion ==
    /\ eq_usage_count = 0
    /\ eq_avg_score = <<0, 1>>
    /\ eq_pc = [s \in SharingSessions |-> "idle"]
    /\ eq_local = [s \in SharingSessions |-> 0]
    /\ eq_calls = 0
    /\ eq_scores = <<>>
    /\ eq_new = None

\* texts: empty, blank and a real one; difficulties: below, on and above the
\* ends of the range and inside it
NextQuestion ==
    \/ \E text \in {"", "  ", "How do you freeze panes?"},
          difficulty \in {-10, 0, 5, 10, 55, 100, 105, 120} :
          new_question(text, difficulty)
    \/ \E s \in SharingSessions : increment_usage_load(s)
    \/ \E s \in SharingSessions : increment_usage_store(s)
    \/ \E s \in SharingSessions, score \in ResponseScores :
          update_effectiveness_metrics(s, score)

InitDifficulty ==
    /\ dm_current_difficulty = DEFAULT_DIFFICULTY
    /\ dm_performance_history = <<>>
    /\ dm_returned = None
    /\ dm_trend = None
    /\ dm_args = None

NextDifficulty ==
    \/ \E q \in Qualities, t \in Times, d \in QuestionDifficulties :
          calculate_adjustment(q, t, d) /\ dm_args' = None
    \/ reset /\ dm_args' = None

\* calls that lead up to one call that is looked at; that call also gets the
\* qualities on the three thresholds and, for difficulty 5, the times on the
\* two limits
NextAdjustment ==
    \/ /\ dm_args = None
       /\ Len(dm_performance_history) + 1 < MaxObserved
       /\ \E q \in Qualities, t \in Times, d \in QuestionDifficulties :
             calculate_adjustment(q, t, d) /\ dm_args' = None
    \/ /\ dm_args = None
       /\ \E q \in Qualities \cup {40, 60, 80}, t \in Times \cup {105, 300},
             d \in QuestionDifficulties : observed_adjustment(q, t, d)

Init ==
    InitDifficulty /\ InitEvaluator /\ InitSelector /\ InitSession /\ InitRotation
    /\ InitReport /\ InitQuestion

\* the start with the generator's provider set up
InitModelSet == Init /\ qg_model

\* no generative provider: QuestionGenerator.model stays None
InitNoModel == Init /\ ~qg_model

Next ==
    NextDifficulty \/ NextAdjustment \/ NextEvaluator \/ NextSelector \/ NextSession \/ NextRotation
    \/ NextReport \/ NextQuestion

\* the difficulty manager and the evaluator never look at the generator,
\* so their runs start from one of its two constructions only
SpecDifficulty == InitModelSet /\ [][NextDifficulty]_vars

SpecEvaluator == InitModelSet /\ [][NextEvaluator]_vars

SpecSelector == Init /\ [][NextSelector]_vars

SpecSession == InitModelSet /\ [][NextSession]_vars

\* The session of a candidate who submits an answer on every run of the
\* interview page, with no generative provider: Streamlit runs the page
\* again after every submit, so a run that would change the session is not
\* put off for ever.
SpecLoop ==
    /\ InitNoModel
    /\ [][NextSession]_vars
    /\ WF_vars(\E outcome \in GenerationOutcomes : render_interview(TRUE, outcome))

SpecRotation == InitModelSet /\ [][NextRotation]_vars

SpecReport == InitModelSet /\ [][NextReport]_vars

SpecQuestion == InitModelSet /\ [][NextQuestion]_vars

SpecAdjustment == InitModelSet /\ [][NextAdjustment]_vars

Spec == Init /\ [][Next]_vars

(***************************************************************************)
(* C1: after any sequence of calculate_adjustment calls from the default   *)
(* difficulty, with any quality, time and question difficulty, the value   *)
(* each call returns and the stored current_difficulty lie in              *)
(* [min_difficulty, max_difficulty].                                       *)
(***************************************************************************)
C1_DifficultyInRange ==
    /\ dm_current_difficulty >= MIN_DIFFICULTY
    /\ dm_current_difficulty <= MAX_DIFFICULTY
    /\ dm_returned # None =>
          /\ The(dm_returned) >= MIN_DIFFICULTY
          /\ The(dm_returned) <= MAX_DIFFICULTY
          /\ The(dm_returned) = dm_current_difficulty

\* both ends of the range have been hit by extreme inputs after three calls
C1_Witness ==
    /\ Len(dm_performance_history) = 3
    /\ dm_returned = Some(MIN_DIFFICULTY)
    /\ dm_performance_history[1] = 1000
    /\ dm_performance_history[3] = -100

(***************************************************************************)
(* C2: for every question and every response text, the heuristic           *)
(* (fallback) evaluation has technical_score, approach_score,              *)
(* communication_score and overall_score each in [0,10]; overall_score     *)
(* never exceeds 10.                                                       *)
(***************************************************************************)
ScoreInRange(score) == score >= 0 /\ score <= 100

IsHeuristicResult(result) ==
    /\ result # None
    /\ The(result).kind = "result"
    /\ The(result).source = "heuristic"

C2_HeuristicScoresInRange ==
    IsHeuristicResult(ev_result) =>
        /\ ScoreInRange(The(ev_result).technical_score)
        /\ ScoreInRange(The(ev_result).approach_score)
        /\ ScoreInRange(The(ev_result).communication_score)
        /\ ScoreInRange(The(ev_result).overall_score)

(***************************************************************************)
(* C3: for every bank content, target difficulty, category and exclusion   *)
(* set, the bank lookup never returns a question whose id is in the        *)
(* exclusion set, on the within-2.0 path and on the closest-match path.    *)
(***************************************************************************)
IsLookup == qb_args # None /\ The(qb_args).op = "get_question_by_difficulty"

C3_NeverReturnsExcluded ==
    (IsLookup /\ The(qb_result).value # None)
    => The(The(qb_result).value).id \notin The(qb_args).exclude_ids

\* a lookup answered on the closest-match path (nothing left within 2.0)
\* whose answer without the exclusion list would have been an excluded one
C3_Witness ==
    /\ IsLookup
    /\ The(qb_result).value # None
    /\ Abs(The(The(qb_result).value).difficulty - The(qb_args).target_difficulty) > 20
    /\ The(get_question_by_difficulty(qb_questions, The(qb_args).target_difficulty,
                                      The(qb_args).category, {})).id
          \in The(qb_args).exclude_ids

(***************************************************************************)
(* C5: get_next_question and generate_ai_question return a question or     *)
(* "no question" for every bank state and every provider outcome; they     *)
(* never raise to the caller.                                              *)
(***************************************************************************)
C5_SelectorNeverRaises ==
    (/\ qb_args # None
     /\ The(qb_args).op \in {"get_next_question", "generate_ai_question"})
    => The(qb_result).kind = "return"

(***************************************************************************)
(* C4: for every provider outcome (no client configured, the provider call *)
(* raising, response text that is not valid JSON, valid JSON of the wrong  *)
(* shape) evaluate_response returns the heuristic evaluation of the        *)
(* candidate's original response text and never raises to the caller.      *)
(***************************************************************************)
C4_FallbackOnProviderFailure ==
    (/\ ev_args # None
     /\ (~The(ev_args).client \/ The(ev_args).provider \in ProviderFailures))
    => ev_result = Some(fallback_evaluation(The(ev_args).question,
                                            Str(The(ev_args).response)))

(***************************************************************************)
(* C6: in stage QUESTIONING, a step of the interview page that has no      *)
(* question on the page and gets none from the selector moves the session  *)
(* to COMPLETE with status COMPLETED; the step records no question as      *)
(* asked and changes none of the metric lists.                             *)
(***************************************************************************)
MetricLists(m) ==
    <<m.difficulty_progression, m.technical_scores, m.approach_scores,
      m.communication_scores, m.overall_scores>>

IsNewSession ==
    /\ stage = "welcome"
    /\ status = "in_progress"
    /\ started_at = None
    /\ completed_at = None

C7_Lifecycle ==
    /\ IsNewSession
    /\ [][/\ last_op'.op = "new_session" => IsNewSession'
          /\ last_op'.op \in {"start_interview", "render_welcome"} =>
                /\ stage' = "questioning"
                /\ started_at' = Some(clock')
                /\ status' = status
                /\ completed_at = None => status' = "in_progress"
          /\ last_op'.op = "complete_interview" =>
                /\ stage' = "complete"
                /\ status' = "completed"
                /\ completed_at' = Some(clock')
                /\ started_at # None =>
                      get_duration_minutes' =
                          Some(<<clock' - The(started_at), 60>>)]_vars

\* created, started at 1, completed at 3 with a turn in between
C7_Witness ==
    /\ last_op = Op("complete_interview", "api", "ok")
    /\ stage = "complete"
    /\ status = "completed"
    /\ started_at = Some(1)
    /\ completed_at = Some(3)
    /\ get_duration_minutes = Some(<<2, 60>>)

(***************************************************************************)
(* C8: the stage of a session changes only along WELCOME -> QUESTIONING,   *)
(* QUESTIONING -> COMPLETE and QUESTIONING -> TERMINATED; start_interview  *)
(* outside WELCOME and complete_interview outside QUESTIONING leave the    *)
(* stage unchanged.  (Replacing the session by a new one is not a stage    *)
(* change of a session.)                                                   *)
(***************************************************************************)
StageEdges ==
    {<<"welcome", "questioning">>, <<"questioning", "complete">>,
     <<"questioning", "terminated">>}

C8_StageEdges ==
    [][last_op'.op # "new_session" =>
          (stage' # stage => <<stage, stage'>> \in StageEdges)]_vars

(***************************************************************************)
(* C9: once a session is in stage COMPLETE or TERMINATED, none of          *)
(* add_conversation_turn, set_current_question, start_interview and        *)
(* complete_interview changes its turn log, asked-question list, metrics,  *)
(* stage or timestamps.                                                    *)
(***************************************************************************)
C9_FrozenAfterEnd ==
    [][(/\ stage \in {"complete", "terminated"}
        /\ last_op'.op \in {"add_conversation_turn", "set_current_question",
                            "start_interview", "complete_interview"})
       => UNCHANGED <<conversation, questions_asked, metrics, stage, created_at,
                      started_at, completed_at>>]_vars

(***************************************************************************)
(* C10: a session completed by a direct complete_interview request while   *)
(* the selector could still supply a question holds at least min_questions *)
(* evaluated candidate turns.                                              *)
(***************************************************************************)
RECURSIVE EvaluatedTurns(_)
EvaluatedTurns(turns) ==
    IF turns = <<>> THEN 0
    ELSE (IF Head(turns).speaker = "candidate" /\ Head(turns).evaluation # None
          THEN 1 ELSE 0) + EvaluatedTurns(Tail(turns))

SelectorCanSupply ==
    get_question_by_difficulty(qb_questions, current_difficulty, None,
        {questions_asked[i] : i \in 1..Len(questions_asked)}) # None

C10_MinimumBeforeTermination ==
    (/\ last_op = Op("complete_interview", "api", "ok")
     /\ stage = "complete"
     /\ SelectorCanSupply)
    => EvaluatedTurns(conversation) >= min_questions

(***************************************************************************)
(* C11: a session leaves WELCOME for QUESTIONING only with candidate_info  *)
(* set; start_interview on a session without candidate_info does not       *)
(* change the stage.                                                       *)
(***************************************************************************)
C11_StartRequiresCandidate ==
    [][/\ (stage = "welcome" /\ stage' = "questioning") => candidate_info' # None
       /\ (last_op'.op = "start_interview" /\ candidate_info = None) => stage' = stage]_vars

(***************************************************************************)
(* C12: with no preferred category passed, a caller that appends each      *)
(* category _select_target_category returns to used_categories gets a      *)
(* category for the second time only after every category of the bank has  *)
(* been returned, whatever order get_categories lists them in.             *)
(***************************************************************************)
C12_RotationCoversBeforeRepeat ==
    [][(/\ rot_picks' # rot_picks
        /\ \E i \in 1..Len(rot_picks) : rot_picks[i] = rot_picks'[Len(rot_picks')])
       => \A c \in CategorySet(qb_questions) :
             \E i \in 1..Len(rot_picks) : rot_picks[i] = c]_vars

\* four picks gave the four categories of the bank, the fifth repeats one
C12_Witness ==
    /\ Len(rot_picks) = 5
    /\ {rot_picks[i] : i \in 1..4} = CategorySet(initialize_questions)
    /\ rot_picks[5] = rot_picks[2]

(***************************************************************************)
(* C13: after any sequence of turns added through add_conversation_turn,   *)
(* avg_response_time is the arithmetic mean of the response times of the   *)
(* evaluated candidate turns that carry a positive response time, and      *)
(* questions_answered is their number; for the times 10, 20, 30 the mean   *)
(* is 20.                                                                  *)
(***************************************************************************)
\* the response times of the evaluated candidate turns with a positive time
TimedTurns(turns) ==
    SelectSeq(turns, LAMBDA t : /\ t.speaker = "candidate"
                                /\ t.evaluation # None
                                /\ t.response_time # None
                                /\ The(t.response_time) > 0)

ResponseTimes(turns) ==
    [i \in 1..Len(TimedTurns(turns)) |-> The(TimedTurns(turns)[i].response_time)]

C13_ResponseTimeMean ==
    LET times == ResponseTimes(conversation)
    IN  /\ metrics.questions_answered = Len(times)
        /\ Len(times) > 0 =>
              metrics.avg_response_time = Frac(Sum(times), Len(times))
        /\ times = <<10, 20, 30>> => metrics.avg_response_time = <<20, 1>>

C13_Witness ==
    /\ ResponseTimes(conversation) = <<10, 20, 30>>
    /\ Len(conversation) = 4
    /\ metrics.avg_response_time = <<20, 1>>
    /\ metrics.questions_answered = 3

(***************************************************************************)
(* C14: in calculate_adjustment, with at least 3 quality samples recorded  *)
(* (the current one included) the trend is (latest sample - the sample two *)
(* before it) / 2 and adds +0.3 when it is above 0.1, -0.3 when it is      *)
(* below -0.1 and nothing otherwise; with fewer than 3 samples the trend   *)
(* adds nothing.  For the qualities 0.9, 0.85, 0.3 the third call's trend  *)
(* part is -0.3.                                                           *)
(***************************************************************************)
C14_TrendContribution ==
    dm_trend # None =>
        LET history == dm_performance_history
            n == Len(history)
        IN  /\ n < 3 => The(dm_trend) = 0
            /\ n >= 3 =>
                  LET trend == FloatHalfDiff(history[n], history[n - 2])
                  IN  The(dm_trend) = IF trend > 60 THEN 3
                                      ELSE IF trend < -60 THEN -3
                                      ELSE 0
            /\ history = <<90, 85, 30>> => The(dm_trend) = -3

C14_Witness ==
    /\ dm_performance_history = <<90, 85, 30>>
    /\ dm_trend = Some(-3)


(***************************************************************************)
(* C15: for every average score and every maximum difficulty asked, the    *)
(* skill level _assess_skill_level returns is the first match of:          *)
(* average >= 8 and maximum difficulty >= 7, Expert; average >= 6 and      *)
(* maximum >= 5, Advanced; average >= 4 and maximum >= 3, Intermediate;    *)
(* otherwise Beginner.  A session scoring 9, 8, 9 is Expert exactly when   *)
(* its maximum difficulty asked is at least 7.                             *)
(***************************************************************************)
AssessedMax ==
    LET asked == The(rg_args).questions_asked
    IN  IF asked = <<>> THEN 0
        ELSE CHOOSE d \in 0..100 :
                /\ \E i \in 1..Len(asked) : asked[i] = d
                /\ \A i \in 1..Len(asked) : asked[i] <= d

C15_SkillLevelFirstMatch ==
    rg_args # None =>
        LET avg == The(rg_args).avg_score
            level == The(rg_result).skill_level
            expert == avg[1] >= 80 * avg[2] /\ AssessedMax >= 70
            advanced == avg[1] >= 60 * avg[2] /\ AssessedMax >= 50
            intermediate == avg[1] >= 40 * avg[2] /\ AssessedMax >= 30
        IN  /\ expert => level = "Expert"
            /\ (~expert /\ advanced) => level = "Advanced"
            /\ (~expert /\ ~advanced /\ intermediate) => level = "Intermediate"
            /\ (~expert /\ ~advanced /\ ~intermediate) => level = "Beginner"
            /\ avg = Frac(90 + 80 + 90, 3) => (level = "Expert" <=> AssessedMax >= 70)

C15_Witness ==
    /\ rg_args # None
    /\ The(rg_args).avg_score = <<260, 3>>
    /\ The(rg_args).questions_asked = <<45, 65>>
    /\ The(rg_result).skill_level = "Advanced"

(***************************************************************************)
(* C16: the hiring recommendation _assess_skill_level returns depends on   *)
(* the average score alone: >= 7 Strong Recommend, >= 5 Recommend with     *)
(* Training, >= 3 Consider for Junior Roles, otherwise Not Recommended,    *)
(* whatever the maximum difficulty and the skill level are.                *)
(***************************************************************************)
C16_HiringByScoreAlone ==
    rg_args # None =>
        LET avg == The(rg_args).avg_score
            rec == The(rg_result).hiring_recommendation
        IN  rec = CASE avg[1] >= 70 * avg[2] -> "Strong Recommend"
                    [] avg[1] < 70 * avg[2] /\ avg[1] >= 50 * avg[2] -> "Recommend with Training"
                    [] avg[1] < 50 * avg[2] /\ avg[1] >= 30 * avg[2] -> "Consider for Junior Roles"
                    [] OTHER -> "Not Recommended"

C16_Witness ==
    /\ rg_args # None
    /\ The(rg_args).avg_score = <<70, 1>>
    /\ The(rg_args).questions_asked = <<>>
    /\ The(rg_result).skill_level = "Beginner"
    /\ The(rg_result).hiring_recommendation = "Strong Recommend"


(***************************************************************************)
(* C18: a run of generate_final_report leaves the session as it was, and   *)
(* the run gives, on that same session, the outcome of every earlier run:  *)
(* the same skill_level and hiring_recommendation strings, or the same     *)
(* error report, or the same exception.                                    *)
(***************************************************************************)
AssessmentOf(report) ==
    IF report.kind = "raise" THEN <<"raise", report.exc>>
    ELSE IF "error" \in DOMAIN report.value THEN <<"error", report.value.error>>
    ELSE <<report.value.skill_assessment.skill_level,
           report.value.skill_assessment.hiring_recommendation>>

C17_ModelAnswerTechnicalScore ==
    (/\ ev_args # None
     /\ IsHeuristicResult(ev_result)
     /\ The(ev_args).question.category \in {"basic_formulas", "data_analysis"}
     /\ The(ev_args).response = The(ev_args).question.expected_answer)
    => The(ev_result).technical_score >= 70


(***************************************************************************)
(* C19: a call of complete_interview on a session with at least one        *)
(* evaluated turn leaves avg_technical, avg_approach, avg_communication    *)
(* and overall_score each equal to the arithmetic mean of the whole score  *)
(* list, whatever the four fields held before the call; a call that        *)
(* follows a call of complete_interview leaves the four averages as they   *)
(* were.                                                                   *)
(***************************************************************************)
Averages(m) == <<m.avg_technical, m.avg_approach, m.avg_communication, m.overall_score>>

MeanOf(scores) == Frac(Sum(scores), Len(scores))

C19_AveragesFromFullLists ==
    [][(completed_at' # completed_at /\ completed_at' # None) =>
          /\ metrics.overall_scores # <<>> =>
                Averages(metrics') = <<MeanOf(metrics.technical_scores),
                                       MeanOf(metrics.approach_scores),
                                       MeanOf(metrics.communication_scores),
                                       MeanOf(metrics.overall_scores)>>
          /\ last_op.op = "complete_interview" => Averages(metrics') = Averages(metrics)]_vars

\* two evaluated turns, then complete_interview at times 3 and 4
C19_Witness ==
    /\ last_op.op = "complete_interview"
    /\ completed_at = Some(4)
    /\ Len(conversation) = 2
    /\ candidate_info = None /\ started_at = None /\ questions_asked = <<>>
    /\ metrics.technical_scores = <<90, 20>>
    /\ metrics.overall_scores = <<90, 40>>
    /\ Averages(metrics) = <<<<55, 1>>, <<65, 1>>, <<75, 1>>, <<65, 1>>>>


(***************************************************************************)
(* C20: a step that adds an evaluated candidate turn feeds the difficulty  *)
(* controller once with quality = overall_score / 10, and leaves the       *)
(* session's current_difficulty equal to the controller's output for that  *)
(* turn; a step that adds a turn without evaluation leaves                 *)
(* current_difficulty unchanged.                                           *)
(***************************************************************************)
AddedTurn == Len(conversation') = Len(conversation) + 1

C20_TurnFeedsDifficulty ==
    [][AddedTurn =>
          LET turn == conversation'[Len(conversation')]
          IN  IF turn.speaker = "candidate" /\ turn.evaluation # None
              THEN \* overall_score in tenths of a point is the quality in hundredths
                   /\ dm_performance_history' =
                         Append(dm_performance_history, The(turn.evaluation).overall_score)
                   /\ dm_returned' = Some(dm_current_difficulty')
                   /\ current_difficulty' = dm_current_difficulty'
              ELSE current_difficulty' = current_difficulty]_vars


(***************************************************************************)
(* C21: with two sessions interleaving their usage updates of one shared   *)
(* question, no update is lost: when no increment_usage call is under way, *)
(* usage_count equals the number of calls that have returned, and once a   *)
(* score is recorded avg_score is the mean of the scores recorded so far.  *)
(***************************************************************************)
C21_NoLostUpdate ==
    /\ (\A s \in SharingSessions : eq_pc[s] # "incrementing") => eq_usage_count = eq_calls
    /\ eq_scores # <<>> => eq_avg_score = Frac(Sum(eq_scores), Len(eq_scores))


(***************************************************************************)
(* C22: building a question with non-blank text from a difficulty outside  *)
(* [1,10] succeeds and gives the question the difficulty clamped into      *)
(* [1,10]; every question that is built has difficulty in [1,10] and       *)
(* non-blank text.                                                         *)
(***************************************************************************)
C22_DifficultyClampedOnBuild ==
    eq_new # None =>
        LET call == The(eq_new)
        IN  /\ strip(call.text) # "" =>
                  /\ call.result.kind = "return"
                  /\ call.result.value.difficulty
                        = Clamp(MIN_DIFFICULTY, MAX_DIFFICULTY, call.difficulty)
            /\ call.result.kind = "return" =>
                  /\ call.result.value.difficulty \in MIN_DIFFICULTY..MAX_DIFFICULTY
                  /\ strip(call.result.value.text) # ""


(***************************************************************************)
(* C23: calculate_adjustment returns clamp(current + base + timing +       *)
(* trend, min, max), where base is +1.5 for quality >= 0.8, +0.5 for       *)
(* quality >= 0.6, -1.0 for quality >= 0.4 and -2.0 otherwise, and timing  *)
(* is +0.5 when time_taken < 0.7 * (question_difficulty * 30), -0.5 when   *)
(* time_taken > 2 * (question_difficulty * 30) and 0 otherwise; the value  *)
(* returned is stored as the new current difficulty.                       *)
(***************************************************************************)
C23_AdjustmentFormula ==
    dm_args # None =>
        LET call == The(dm_args)
            base == CASE call.response_quality >= 80 -> 15
                      [] call.response_quality \in 60..79 -> 5
                      [] call.response_quality \in 40..59 -> -10
                      [] OTHER -> -20
            \* question_difficulty is in tenths: 30 seconds a point is 3 a tenth
            expected == 3 * call.question_difficulty
            timing == CASE 10 * call.time_taken < 7 * expected -> 5
                        [] 10 * call.time_taken >= 7 * expected
                           /\ call.time_taken > 2 * expected -> -5
                        [] OTHER -> 0
            sum == call.current_difficulty + base + timing + The(dm_trend)
            clamped == IF sum < MIN_DIFFICULTY THEN MIN_DIFFICULTY
                       ELSE IF sum > MAX_DIFFICULTY THEN MAX_DIFFICULTY
                       ELSE sum
        IN  /\ dm_returned = Some(clamped)
            /\ dm_current_difficulty = clamped

\* third call: quality 0.9 after 0.7, 0.7; 300 s for difficulty 5 is not slow
C23_Witness ==
    /\ dm_args = Some([current_difficulty |-> 60, response_quality |-> 90,
                       time_taken |-> 300, question_difficulty |-> 50])
    /\ dm_performance_history = <<70, 70, 90>>
    /\ dm_trend = Some(3)
    /\ dm_returned = Some(78)


(***************************************************************************)
(* C24: get_question_by_difficulty returns a question that is not excluded *)
(* and of the requested category (any category when none is given) within  *)
(* 2.0 of the target whenever there is one; otherwise the such question    *)
(* with the smallest distance to the target; it returns None exactly when  *)
(* every question of the category (of the bank without a category) is      *)
(* excluded.                                                               *)
(***************************************************************************)
Eligible ==
    {i \in 1..Len(qb_questions) :
        /\ qb_questions[i].id \notin The(qb_args).exclude_ids
        /\ (The(qb_args).category # None
               => qb_questions[i].category = The(The(qb_args).category))}

Distance(i) ==
    LET d == qb_questions[i].difficulty - The(qb_args).target_difficulty
    IN  IF d < 0 THEN -d ELSE d

C24_LookupByDifficulty ==
    IsLookup =>
        LET found == The(qb_result).value
            near == {i \in Eligible : Distance(i) <= 20}
        IN  /\ The(qb_result).kind = "return"
            /\ near # {} => found \in {Some(qb_questions[i]) : i \in near}
            /\ (near = {} /\ Eligible # {}) =>
                  found \in {Some(qb_questions[i]) :
                                i \in {k \in Eligible :
                                          \A j \in Eligible : Distance(k) <= Distance(j)}}
            /\ found = None <=> Eligible = {}

\* nothing of the category within 2.0 of the target 13.0, the closest
\* question excluded: the next closest is returned
C24_Witness ==
    /\ IsLookup
    /\ The(qb_args).target_difficulty = 130
    /\ The(qb_args).category = Some("automation")
    /\ The(qb_args).exclude_ids = {"automation_1"}
    /\ The(qb_result).value # None
    /\ The(The(qb_result).value).id = "automation_3"


(***************************************************************************)
(* C25: when evaluate_response returns the evaluation built from the       *)
(* provider's JSON, each of its four scores lies in [0,10], whatever       *)
(* numbers the JSON carries.                                               *)
(***************************************************************************)
C25_AcceptedScoresInRange ==
    (/\ ev_result # None
     /\ The(ev_result).kind = "result"
     /\ The(ev_result).source = "ai")
    => \A score \in {The(ev_result).technical_score, The(ev_result).approach_score,
                     The(ev_result).communication_score, The(ev_result).overall_score} :
          score \in 0..100

(***************************************************************************)
(* C26: a step of the interview page taken in stage QUESTIONING with no    *)
(* question on the page either ends the session or presents one more       *)
(* question, whose id is not among the ids in questions_asked and is       *)
(* appended to them; so the page never asks a question twice.              *)
(***************************************************************************)
AskedIds == {questions_asked[i] : i \in 1..Len(questions_asked)}

C27_LoopReachesComplete ==
    (stage = "questioning") ~> (stage = "complete")

(***************************************************************************)
(* C28: the technical, approach, communication and overall score lists     *)
(* all have the same length, the number of candidate turns with an         *)
(* evaluation in the turn log; a step that adds an interviewer turn or a   *)
(* candidate turn without evaluation appends the turn to the log and       *)
(* leaves every metric unchanged.                                          *)
(***************************************************************************)
ScoreListLengths(m) ==
    <<Len(m.technical_scores), Len(m.approach_scores),
      Len(m.communication_scores), Len(m.overall_scores)>>

IsEvaluated(turn) == turn.speaker = "candidate" /\ turn.evaluation # None

C28_ScoreListsAligned ==
    /\ [](LET n == EvaluatedTurns(conversation)
          IN  ScoreListLengths(metrics) = <<n, n, n, n>>)
    /\ [][(last_op'.op = "add_conversation_turn" /\ AddedTurn
              /\ ~IsEvaluated(conversation'[Len(conversation')]))
          => /\ SubSeq(conversation', 1, Len(conversation)) = conversation
             /\ metrics' = metrics]_vars

\* an interviewer turn and a candidate turn without evaluation have been
\* added after two evaluated answers
C28_Witness ==
    /\ Len(conversation) = 4
    /\ IsEvaluated(conversation[1])
    /\ IsEvaluated(conversation[2])
    /\ conversation[3].speaker = "interviewer"
    /\ conversation[4].speaker = "candidate" /\ conversation[4].evaluation = None
    /\ ScoreListLengths(metrics) = <<2, 2, 2, 2>>
    /\ last_op.op = "add_conversation_turn"

(***************************************************************************)
(* C29: questions_answered equals the number of evaluated candidate turns, *)
(* that is the length of overall_scores, also when an evaluated turn has   *)
(* response_time 0 or none.                                                *)
(***************************************************************************)
C29_AnsweredCountsEvaluated ==
    metrics.questions_answered = Len(metrics.overall_scores)

(***************************************************************************)
(* C30: total_questions equals the length of difficulty_progression and    *)
(* the length of questions_asked; a set_current_question step adds exactly *)
(* one entry to each (the question's difficulty and id), answered or not,  *)
(* and no other operation on the session changes any of the three.         *)
(***************************************************************************)
Presented == <<metrics.total_questions, metrics.difficulty_progression, questions_asked>>

C30_PresentedCounted ==
    /\ [](/\ metrics.total_questions = Len(metrics.difficulty_progression)
          /\ metrics.total_questions = Len(questions_asked))
    \* "Start New Interview" replaces the session by a new one
    /\ [][last_op'.op # "new_session" =>
          IF last_op'.op = "set_current_question" \/ current_question' # current_question
          THEN /\ current_question' # None
               /\ metrics'.total_questions = metrics.total_questions + 1
               /\ metrics'.difficulty_progression =
                      Append(metrics.difficulty_progression,
                             The(current_question').difficulty)
               /\ questions_asked' =
                      Append(questions_asked, The(current_question').question_id)
          ELSE Presented' = Presented]_vars

\* two questions presented, only the first of them answered
C30_Witness ==
    /\ metrics.total_questions = 2
    /\ Len(questions_asked) = 2
    /\ Len(metrics.difficulty_progression) = 2
    /\ metrics.questions_answered = 1
    /\ Len(conversation) = 1
    /\ last_op.op = "set_current_question"

====
